---- MODULE Spec2Model ----
(***************************************************************************)
(* Model of entitydtoconverter/converters.py: the converter functions      *)
(* between request payloads, DTOs (pydantic models), entities (dataclass   *)
(* instances) and stored objects (ORM model instances).                    *)
(*                                                                         *)
(* The module is stateless: every function is a synchronous transformation *)
(* of its arguments.  A behaviour of the model is one call: Init draws the *)
(* function called and its arguments, and the function's action computes   *)
(* the outcome (a returned value or a raised exception).                   *)
(***************************************************************************)
EXTENDS Integers, Sequences, FiniteSets, TLC

\* queried: the lookups the call has issued to the store, in order
VARIABLES op, args, result, queried

vars == <<op, args, result, queried>>

(***************************************************************************)
(* Bounds of the input universe.                                           *)
(***************************************************************************)
MaxStrLen == 2
MaxBatch == 2

(***************************************************************************)
(* Python values.  Every value is a record [k, v]: k is the kind of the    *)
(* value and v its payload.                                                *)
(***************************************************************************)
None == [k |-> "none", v |-> 0]
VInt(n) == [k |-> "int", v |-> n]
VStr(s) == [k |-> "str", v |-> s]
Dict(f) == [k |-> "dict", v |-> f]
List(s) == [k |-> "list", v |-> s]
Cls(schema) == [k |-> "class", v |-> schema]
Rec(schema, f) == [k |-> "rec", v |-> [cls |-> schema, f |-> f]]
Dto(schema, f, set) == [k |-> "dto", v |-> [cls |-> schema, f |-> f, set |-> set]]
Raise(e) == [k |-> "raise", v |-> e]
MISSING == [k |-> "missing", v |-> 0]
Pending == [k |-> "pending", v |-> 0]

IsRaise(x) == x.k = "raise"

Chars == {" ", "a"}
Strs == UNION {[1..n -> Chars] : n \in 0..MaxStrLen}
ShortStrs == {s \in Strs : Len(s) <= 1}

(***************************************************************************)
(* str.strip(), as pydantic applies it under str_strip_whitespace.         *)
(***************************************************************************)
RECURSIVE LStrip(_)
LStrip(s) == IF s # <<>> /\ Head(s) = " " THEN LStrip(Tail(s)) ELSE s

RECURSIVE RStrip(_)
RStrip(s) ==
    IF s # <<>> /\ s[Len(s)] = " " THEN RStrip(SubSeq(s, 1, Len(s) - 1)) ELSE s

Strip(s) == RStrip(LStrip(s))

(***************************************************************************)
(* Classes.  A class is described by its kind, its declared fields in      *)
(* order, each field's default (MISSING when the field is required) and,   *)
(* for a DTO, each field's type and nullability and the model_config.      *)
(***************************************************************************)
NoFields == <<>>

StrType ==
    [name |-> "str", kind |-> "builtin", fields |-> <<>>, dflt |-> NoFields,
     ftype |-> NoFields, nullable |-> NoFields, sub |-> NoFields,
     strip |-> FALSE, forbid |-> FALSE]

GenderEntity ==
    [name |-> "GenderEntity", kind |-> "dataclass", fields |-> <<"gender">>,
     dflt |-> [gender |-> MISSING],
     ftype |-> NoFields, nullable |-> NoFields, sub |-> NoFields,
     strip |-> FALSE, forbid |-> FALSE]

AddressEntity ==
    [name |-> "AddressEntity", kind |-> "dataclass", fields |-> <<"street">>,
     dflt |-> [street |-> MISSING],
     ftype |-> NoFields, nullable |-> NoFields, sub |-> NoFields,
     strip |-> FALSE, forbid |-> FALSE]

PersonEntity(ageDefault) ==
    [name |-> "PersonEntity", kind |-> "dataclass",
     fields |-> <<"first_name", "age", "gender", "address">>,
     dflt |-> [first_name |-> MISSING, age |-> ageDefault, gender |-> None,
               address |-> None],
     ftype |-> NoFields, nullable |-> NoFields, sub |-> NoFields,
     strip |-> FALSE, forbid |-> FALSE]

\* model_config of BaseDTO; a DTO declared on pydantic's BaseModel, as the
\* tests' DTOs are, neither strips strings nor forbids extra keys.
BaseDTO == [strip |-> TRUE, forbid |-> TRUE]
BaseModel == [strip |-> FALSE, forbid |-> FALSE]
Bases == {BaseDTO, BaseModel}

GenderDTO(base) ==
    [name |-> "GenderDTO", kind |-> "dto", fields |-> <<"gender">>,
     dflt |-> [gender |-> MISSING],
     ftype |-> [gender |-> "str"], nullable |-> [gender |-> FALSE],
     sub |-> NoFields,
     strip |-> base.strip, forbid |-> base.forbid]

AddressDTO(base) ==
    [name |-> "AddressDTO", kind |-> "dto", fields |-> <<"street">>,
     dflt |-> [street |-> MISSING],
     ftype |-> [street |-> "str"], nullable |-> [street |-> FALSE],
     sub |-> NoFields,
     strip |-> base.strip, forbid |-> base.forbid]

PersonDTO(base, ageDefault) ==
    [name |-> "PersonDTO", kind |-> "dto",
     fields |-> <<"first_name", "age", "gender", "address">>,
     dflt |-> [first_name |-> MISSING, age |-> ageDefault, gender |-> None,
               address |-> None],
     ftype |-> [first_name |-> "str", age |-> "int", gender |-> "dto",
                address |-> "dto"],
     nullable |-> [first_name |-> FALSE, age |-> TRUE, gender |-> TRUE,
                   address |-> TRUE],
     sub |-> [gender |-> GenderDTO(base), address |-> AddressDTO(base)],
     strip |-> base.strip, forbid |-> base.forbid]

FieldSet(schema) == {schema.fields[i] : i \in 1..Len(schema.fields)}

(***************************************************************************)
(* dataclasses                                                             *)
(***************************************************************************)
is_dataclass(x) ==
    \/ x.k = "rec"
    \/ x.k = "class" /\ x.v.kind = "dataclass"

\* cls(**kwargs) for the generated __init__ of a dataclass
Construct(cls, kwargs) ==
    IF cls.k # "class" \/ cls.v.kind # "dataclass"
    THEN Raise("TypeError")
    ELSE IF \E key \in DOMAIN kwargs : key \notin FieldSet(cls.v)
    THEN Raise("TypeError")
    ELSE IF \E f \in FieldSet(cls.v) : f \notin DOMAIN kwargs /\ cls.v.dflt[f] = MISSING
    THEN Raise("TypeError")
    ELSE Rec(cls.v, [f \in FieldSet(cls.v) |->
                        IF f \in DOMAIN kwargs THEN kwargs[f] ELSE cls.v.dflt[f]])

RECURSIVE asdict_inner(_)
asdict_inner(x) ==
    IF x.k = "rec"
    THEN Dict([f \in DOMAIN x.v.f |-> asdict_inner(x.v.f[f])])
    ELSE x

asdict(obj) ==
    IF obj.k # "rec" THEN Raise("TypeError") ELSE asdict_inner(obj)

replace(obj, changes) ==
    IF obj.k # "rec"
    THEN Raise("TypeError")
    ELSE Construct(Cls(obj.v.cls),
                   [f \in (DOMAIN obj.v.f) \cup (DOMAIN changes) |->
                       IF f \in DOMAIN changes THEN changes[f] ELSE obj.v.f[f]])

Restrict(f, S) == [x \in S |-> f[x]]

(***************************************************************************)
(* update_entity                                                           *)
(***************************************************************************)
update_entity(base_entity, update_ent) ==
    IF ~is_dataclass(base_entity) \/ ~is_dataclass(update_ent)
    THEN Raise("TypeError")
    ELSE LET d == asdict(update_ent)
         IN IF IsRaise(d)
            THEN d
            ELSE LET patch == Restrict(d.v, {key \in DOMAIN d.v : d.v[key] # None})
                 IN replace(base_entity, patch)

(***************************************************************************)
(* pydantic: validation into a DTO and model_dump.  Nested values reach    *)
(* validation as mappings (asdict output, request payloads).  The strings  *)
(* of the input universe hold no digits, so none is coerced to an int.     *)
(***************************************************************************)
RECURSIVE model_validate(_, _)

ValidateValue(schema, f, x) ==
    IF x = None
    THEN IF schema.nullable[f] THEN None ELSE Raise("ValidationError")
    ELSE CASE schema.ftype[f] = "str" ->
                IF x.k = "str"
                THEN VStr(IF schema.strip THEN Strip(x.v) ELSE x.v)
                ELSE Raise("ValidationError")
           [] schema.ftype[f] = "int" ->
                IF x.k = "int" THEN x ELSE Raise("ValidationError")
           [] schema.ftype[f] = "dto" ->
                IF x.k = "dict"
                THEN model_validate(schema.sub[f], x.v)
                ELSE Raise("ValidationError")

\* dto_cls.model_validate(data) and dto_cls(**data), data a mapping
model_validate(schema, data) ==
    IF \/ schema.forbid /\ \E key \in DOMAIN data : key \notin FieldSet(schema)
       \/ \E f \in FieldSet(schema) : f \notin DOMAIN data /\ schema.dflt[f] = MISSING
       \/ \E f \in FieldSet(schema) \cap DOMAIN data :
              IsRaise(ValidateValue(schema, f, data[f]))
    THEN Raise("ValidationError")
    ELSE Dto(schema,
             [f \in FieldSet(schema) |->
                 IF f \in DOMAIN data
                 THEN ValidateValue(schema, f, data[f])
                 ELSE schema.dflt[f]],
             FieldSet(schema) \cap DOMAIN data)

RECURSIVE model_dump(_, _, _)
model_dump(obj, exclude_unset, exclude_none) ==
    IF obj.k # "dto"
    THEN Raise("AttributeError")
    ELSE LET keys == {f \in FieldSet(obj.v.cls) :
                         /\ exclude_unset => f \in obj.v.set
                         /\ exclude_none => obj.v.f[f] # None}
         IN Dict([f \in keys |->
                     IF obj.v.f[f].k = "dto"
                     THEN model_dump(obj.v.f[f], exclude_unset, exclude_none)
                     ELSE obj.v.f[f]])

\* Reading the accessor of a relation whose row is absent raises the related
\* model's RelatedObjectDoesNotExist, a subclass of ObjectDoesNotExist.
Dangling == [k |-> "dangling", v |-> 0]

getattr(obj, name) ==
    IF obj.k \in {"dto", "rec", "model"} /\ name \in DOMAIN obj.v.f
    THEN IF obj.v.f[name] = Dangling
         THEN Raise("RelatedObjectDoesNotExist")
         ELSE obj.v.f[name]
    ELSE Raise("AttributeError")

(***************************************************************************)
(* entity_to_dto, entity_to_dtos                                           *)
(***************************************************************************)
\* entity_to_dto with the null fields of the record left out of the mapping
entity_to_dto_drop_none(entity_instance, dto_cls) ==
    IF ~is_dataclass(entity_instance)
    THEN Raise("TypeError")
    ELSE LET d == asdict(entity_instance)
         IN IF IsRaise(d)
            THEN d
            ELSE model_validate(dto_cls.v,
                                Restrict(d.v, {key \in DOMAIN d.v : d.v[key] # None}))

entity_to_dto(entity_instance, dto_cls) ==
    IF ~is_dataclass(entity_instance)
    THEN Raise("TypeError")
    ELSE LET d == asdict(entity_instance)
         IN IF IsRaise(d) THEN d ELSE model_validate(dto_cls.v, d.v)

\* the list comprehension: the first element that raises ends the call
RECURSIVE entity_to_dtos_from(_, _, _)
entity_to_dtos_from(entities_instances, dto_cls, out) ==
    IF entities_instances = <<>>
    THEN List(out)
    ELSE LET d == entity_to_dto(Head(entities_instances), dto_cls)
         IN IF IsRaise(d)
            THEN d
            ELSE entity_to_dtos_from(Tail(entities_instances), dto_cls, Append(out, d))

\* entity_to_dtos with the output in reverse order
entity_to_dtos_reversed(entities_instances, dto_cls) ==
    LET r == entity_to_dtos_from(entities_instances, dto_cls, <<>>)
    IN IF IsRaise(r) THEN r
       ELSE List([i \in 1..Len(r.v) |-> r.v[Len(r.v) + 1 - i]])

entity_to_dtos(entities_instances, dto_cls) ==
    entity_to_dtos_from(entities_instances, dto_cls, <<>>)

(***************************************************************************)
(* dto_to_entity, dto_to_entities                                          *)
(***************************************************************************)
RECURSIVE dto_to_entity(_, _, _)
RECURSIVE field_map_loop(_, _, _)

\* the loop over field_map.items(), in the mapping's insertion order
field_map_loop(dto_instance, data, items) ==
    IF items = <<>>
    THEN Dict(data)
    ELSE LET field == items[1][1]
             adapter == items[1][2]
         IN IF is_dataclass(adapter)
            THEN LET nested == getattr(dto_instance, field)
                     converted == IF IsRaise(nested)
                                  THEN nested
                                  ELSE dto_to_entity(nested, adapter, <<>>)
                 IN IF IsRaise(converted)
                    THEN converted
                    ELSE field_map_loop(
                             dto_instance,
                             [f \in DOMAIN data \cup {field} |->
                                 IF f = field THEN converted ELSE data[f]],
                             Tail(items))
            ELSE Raise("TypeError")

\* dto_to_entity with the full field dump, as dto_to_entities takes it
dto_to_entity_full_dump(dto_instance, entity_cls, field_map) ==
    LET dumped == model_dump(dto_instance, FALSE, FALSE)
    IN IF IsRaise(dumped)
       THEN dumped
       ELSE LET data == IF field_map # <<>>
                        THEN field_map_loop(dto_instance, dumped.v, field_map)
                        ELSE dumped
            IN IF IsRaise(data) THEN data ELSE Construct(entity_cls, data.v)

dto_to_entity(dto_instance, entity_cls, field_map) ==
    LET dumped == model_dump(dto_instance, TRUE, TRUE)
    IN IF IsRaise(dumped)
       THEN dumped
       ELSE LET data == IF field_map # <<>>
                        THEN field_map_loop(dto_instance, dumped.v, field_map)
                        ELSE dumped
            IN IF IsRaise(data) THEN data ELSE Construct(entity_cls, data.v)

RECURSIVE dto_to_entities_from(_, _, _)
dto_to_entities_from(dto_instances, entity_cls, out) ==
    IF dto_instances = <<>>
    THEN List(out)
    ELSE LET dumped == model_dump(Head(dto_instances), FALSE, FALSE)
             e == IF IsRaise(dumped) THEN dumped ELSE Construct(entity_cls, dumped.v)
         IN IF IsRaise(e)
            THEN e
            ELSE dto_to_entities_from(Tail(dto_instances), entity_cls, Append(out, e))

\* dto_to_entities mapping dto_to_entity, with its filtering, over the input
RECURSIVE dto_to_entities_filtered_from(_, _, _)
dto_to_entities_filtered_from(dto_instances, entity_cls, out) ==
    IF dto_instances = <<>>
    THEN List(out)
    ELSE LET e == dto_to_entity(Head(dto_instances), entity_cls, <<>>)
         IN IF IsRaise(e)
            THEN e
            ELSE dto_to_entities_filtered_from(Tail(dto_instances), entity_cls,
                                               Append(out, e))

dto_to_entities_filtered(dto_instances, entity_cls) ==
    dto_to_entities_filtered_from(dto_instances, entity_cls, <<>>)

dto_to_entities(dto_instances, entity_cls) ==
    dto_to_entities_from(dto_instances, entity_cls, <<>>)

(***************************************************************************)
(* request_to_dto                                                          *)
(***************************************************************************)
\* mapping.get(key): the value, None when the key is missing
DictGet(d, key) == IF key \in DOMAIN d THEN d[key] ELSE None

\* request_to_dto falling back to the query parameters key by key
request_to_dto_mixed(req, dto_model) ==
    LET kwargs == [key \in FieldSet(dto_model.v) |->
                      IF key \in DOMAIN req.data.v
                      THEN req.data.v[key]
                      ELSE DictGet(req.query_params.v, key)]
    IN model_validate(dto_model.v, kwargs)

request_to_dto(req, dto_model) ==
    LET data == IF req.data.v # <<>> THEN req.data ELSE req.query_params
        kwargs == [key \in FieldSet(dto_model.v) |-> DictGet(data.v, key)]
    IN model_validate(dto_model.v, kwargs)

(***************************************************************************)
(* Stored objects and the ORM lookup                                       *)
(***************************************************************************)
Model(f) == [k |-> "model", v |-> [cls |-> "User", f |-> f]]

ModelFields == {"id", "username", "email", "profile"}

\* django.core.exceptions.ObjectDoesNotExist and its subclasses
ObjectDoesNotExist == {"ObjectDoesNotExist", "DoesNotExist", "RelatedObjectDoesNotExist"}

\* model_cls.objects.get(**{filter_field: filter_value}); store is the set of
\* rows of model_cls
ObjectsGet(store, filter_field, filter_value) ==
    IF filter_field \notin ModelFields
    THEN Raise("FieldError")
    ELSE IF filter_field = "id" /\ filter_value.k # "int"
    THEN Raise("ValueError")
    ELSE LET found == {m \in store : m.v.f[filter_field] = filter_value}
         IN IF found = {}
            THEN Raise("DoesNotExist")
            ELSE IF Cardinality(found) > 1
            THEN Raise("MultipleObjectsReturned")
            ELSE CHOOSE m \in found : TRUE

\* Adapters are callables of one argument.
ApplyAdapter(adapter, x) ==
    CASE adapter = "wrap" -> List(<<x>>)
      [] adapter = "negate" -> IF x.k = "int" THEN VInt(0 - x.v) ELSE Raise("TypeError")
      [] adapter = "fetch" -> Raise("DoesNotExist")

(***************************************************************************)
(* model_to_entity                                                         *)
(***************************************************************************)
\* FieldValue with the adapter looked up under the entity's field name
FieldValueByEntityName(model_instance, entity_name, field_mapping, adapters) ==
    LET model_name == IF entity_name \in DOMAIN field_mapping
                      THEN field_mapping[entity_name]
                      ELSE entity_name
        raw == getattr(model_instance, model_name)
    IN IF IsRaise(raw) \/ entity_name \notin DOMAIN adapters
       THEN raw
       ELSE ApplyAdapter(adapters[entity_name], raw)

\* one iteration of the loop over fields(entity_cls): the value of the
\* entity's field entity_name
FieldValue(model_instance, entity_name, field_mapping, adapters) ==
    LET model_name == IF entity_name \in DOMAIN field_mapping
                      THEN field_mapping[entity_name]
                      ELSE entity_name
        raw == getattr(model_instance, model_name)
    IN IF IsRaise(raw) \/ model_name \notin DOMAIN adapters
       THEN raw
       ELSE ApplyAdapter(adapters[model_name], raw)

\* the loop over fields(entity_cls); entity_ is the mapping built so far
RECURSIVE model_to_entity_loop(_, _, _, _, _)
model_to_entity_loop(model_instance, names, field_mapping, adapters, entity_) ==
    IF names = <<>>
    THEN Dict(entity_)
    ELSE LET entity_name == Head(names)
             value == FieldValue(model_instance, entity_name, field_mapping, adapters)
         IN IF IsRaise(value)
            THEN value
            ELSE model_to_entity_loop(
                     model_instance, Tail(names), field_mapping, adapters,
                     [f \in DOMAIN entity_ \cup {entity_name} |->
                         IF f = entity_name THEN value ELSE entity_[f]])

model_to_entity(model_instance, entity_cls, field_mapping, adapters) ==
    LET mapping == IF field_mapping = None THEN <<>> ELSE field_mapping.v
        adapt == IF adapters = None THEN <<>> ELSE adapters.v
    IN IF model_instance.k # "model"
       THEN Raise("NotValidModelPassed")
       ELSE LET entity_ == model_to_entity_loop(
                               model_instance, entity_cls.v.fields, mapping, adapt, <<>>)
            IN IF IsRaise(entity_) THEN entity_ ELSE Construct(entity_cls, entity_.v)

(***************************************************************************)
(* get_by, get_raw_by                                                      *)
(***************************************************************************)
\* get_by converting the found object whatever return_raw says
get_by_ignores_return_raw(store, filter_field, filter_value, entity_cls, return_raw, field_mapping, adapters) ==
    LET instance == ObjectsGet(store, filter_field, filter_value)
        r == IF IsRaise(instance)
             THEN instance
             ELSE model_to_entity(instance, entity_cls, field_mapping, adapters)
    IN IF IsRaise(r) /\ r.v \in ObjectDoesNotExist THEN None ELSE r

get_by(store, filter_field, filter_value, entity_cls, return_raw, field_mapping, adapters) ==
    LET instance == ObjectsGet(store, filter_field, filter_value)
        r == IF IsRaise(instance) \/ return_raw
             THEN instance
             ELSE model_to_entity(instance, entity_cls, field_mapping, adapters)
    IN IF IsRaise(r) /\ r.v \in ObjectDoesNotExist THEN None ELSE r

get_raw_by(store, filter_field, filter_value) ==
    LET r == ObjectsGet(store, filter_field, filter_value)
    IN IF IsRaise(r) /\ r.v \in ObjectDoesNotExist THEN None ELSE r

(***************************************************************************)
(* Inputs: the arguments a caller can pass.  Entities are built by their   *)
(* constructors (no validation); DTOs are built by validation, so a DTO's  *)
(* field values are what validation left of the values given.              *)
(***************************************************************************)
NameVals == {VStr(s) : s \in Strs}
ShortNameVals == {VStr(s) : s \in ShortStrs}
AgeVals == {None, VInt(1), VInt(2)}

EntityAgeDefaults == {MISSING, None, VInt(2)}
DtoAgeDefaults == {None, VInt(1)}

GenderEntities == {Rec(GenderEntity, [gender |-> n]) : n \in ShortNameVals}
AddressEntities == {Rec(AddressEntity, [street |-> VStr(<<"a">>)])}

\* dataclasses do not validate: a field may hold None or a value of another type
PersonEntitiesOver(names) ==
    {Rec(PersonEntity(None),
         [first_name |-> n, age |-> a, gender |-> g, address |-> ad]) :
        n \in names \cup {None},
        a \in AgeVals \cup {VStr(<<"a">>)},
        g \in GenderEntities \cup {None},
        ad \in AddressEntities \cup {None}}

PersonEntities == PersonEntitiesOver(NameVals)

NonRecords == {None, VStr(<<"a">>), Cls(GenderEntity)}

\* functions from the keys in S, each key's value drawn from range[key]
Mappings(S, range) ==
    {f \in [S -> UNION {range[key] : key \in S}] : \A key \in S : f[key] \in range[key]}

PersonKwargs(names) ==
    UNION {Mappings({"first_name"} \cup S,
                    [first_name |-> names,
                     age |-> AgeVals,
                     gender |-> {None} \cup {Dict([gender |-> n]) : n \in ShortNameVals},
                     address |-> {Dict([street |-> VStr(<<"a">>)])}]) :
           S \in SUBSET {"age", "gender", "address"}}

DtosOver(schema, kwargs) ==
    {model_validate(schema, kw) : kw \in kwargs} \ {Raise("ValidationError")}

PersonDTOClasses == {PersonDTO(b, d) : b \in Bases, d \in DtoAgeDefaults}
PersonEntityClasses == {Cls(PersonEntity(d)) : d \in EntityAgeDefaults}

\* dict[str, type]: distinct keys, in insertion order
FieldMapTargets ==
    {Cls(GenderEntity), Cls(AddressEntity), Cls(StrType),
     Rec(GenderEntity, [gender |-> VStr(<<"a">>)])}
FieldMapItems == {"gender", "address"} \X FieldMapTargets
FieldMaps ==
    {<<>>} \cup {<<i>> : i \in FieldMapItems}
           \cup {s \in [1..2 -> FieldMapItems] : s[1][1] # s[2][1]}

SeqsUpTo(S, n) == UNION {[1..m -> S] : m \in 0..n}

BatchEntities ==
    {e \in PersonEntitiesOver({VStr(<<"a">>), VStr(<<" ">>)}) :
        e.v.f.age \in {None, VInt(1)} /\ e.v.f.gender = None /\ e.v.f.address = None}
    \cup {VStr(<<"a">>)}

BatchDtos(schema) ==
    DtosOver(schema, {kw \in PersonKwargs({VStr(<<"a">>)}) :
                         /\ "age" \in DOMAIN kw => kw.age \in {None, VInt(2)}
                         /\ "gender" \in DOMAIN kw => kw.gender # None
                         /\ "address" \notin DOMAIN kw})
    \cup {None}

UserEntity ==
    [name |-> "UserEntity", kind |-> "dataclass",
     fields |-> <<"id", "name", "profile">>,
     dflt |-> [id |-> MISSING, name |-> MISSING, profile |-> MISSING],
     ftype |-> NoFields, nullable |-> NoFields, sub |-> NoFields,
     strip |-> FALSE, forbid |-> FALSE]

MaxStore == 2

StoredObjects ==
    {Model([id |-> VInt(i), username |-> u, email |-> VStr(<<"a">>), profile |-> p]) :
        i \in 1..MaxStore,
        u \in {VStr(<<"a">>), VStr(<<" ">>)},
        p \in {VStr(<<"a">>), Dangling}}

\* the primary key is unique
Stores == {S \in SUBSET StoredObjects : \A m, n \in S : m.v.f.id = n.v.f.id => m = n}

FilterFields == {"username", "id", "email", "profile", "name"}
FilterValues == {VInt(1), VStr(<<"a">>), VStr(<<" ">>)}

FieldMappings ==
    {None,
     Dict([name |-> "username"]),
     Dict([name |-> "username", profile |-> "email"])}

AdapterMappings ==
    {None,
     Dict([username |-> "wrap"]),
     Dict([name |-> "wrap"]),
     Dict([id |-> "negate"]),
     Dict([username |-> "negate"]),
     Dict([profile |-> "fetch"]),
     Dict([username |-> "wrap", id |-> "negate"])}

RequestBodies ==
    UNION {Mappings(S, [first_name |-> {VStr(<<"a">>), VStr(<<" ", "a">>)},
                        age |-> {VInt(1), VStr(<<"a">>)},
                        extra |-> {VInt(1)}]) :
           S \in SUBSET {"first_name", "age", "extra"}}

\* query parameters are strings
QueryParams ==
    UNION {Mappings(S, [first_name |-> {VStr(<<"a">>), VStr(<<"a", " ">>)},
                        age |-> {VStr(<<"a">>)},
                        extra |-> {VStr(<<"a">>)}]) :
           S \in SUBSET {"first_name", "age", "extra"}}

Ops ==
    {"request_to_dto", "entity_to_dto", "entity_to_dtos", "dto_to_entity",
     "dto_to_entities", "update_entity", "model_to_entity", "get_by", "get_raw_by"}

Inputs(o) ==
    CASE o = "request_to_dto" ->
            [req : [data : {Dict(b) : b \in RequestBodies},
                    query_params : {Dict(q) : q \in QueryParams}],
             dto_model : {Cls(c) : c \in PersonDTOClasses}]
      [] o = "entity_to_dto" ->
            [entity_instance : PersonEntities \cup GenderEntities \cup NonRecords,
             dto_cls : {Cls(c) : c \in PersonDTOClasses}]
      [] o = "entity_to_dtos" ->
            [entities_instances : SeqsUpTo(BatchEntities, MaxBatch),
             dto_cls : {Cls(c) : c \in PersonDTOClasses}]
      [] o = "dto_to_entity" ->
            UNION {[dto_instance : DtosOver(c, PersonKwargs(NameVals)),
                    entity_cls : PersonEntityClasses,
                    field_map : FieldMaps] : c \in PersonDTOClasses}
      [] o = "dto_to_entities" ->
            UNION {[dto_instances : SeqsUpTo(BatchDtos(c), MaxBatch),
                    entity_cls : PersonEntityClasses] : c \in PersonDTOClasses}
      [] o = "update_entity" ->
            [base_entity : PersonEntitiesOver(ShortNameVals) \cup GenderEntities \cup NonRecords,
             update_entity : PersonEntitiesOver(ShortNameVals) \cup GenderEntities \cup NonRecords]
      [] o = "model_to_entity" ->
            [model_instance : StoredObjects \cup {None, Rec(GenderEntity, [gender |-> VStr(<<"a">>)])},
             entity_cls : {Cls(UserEntity)},
             field_mapping : FieldMappings,
             adapters : AdapterMappings]
      [] o = "get_by" ->
            [store : Stores,
             filter_field : FilterFields,
             filter_value : FilterValues,
             entity_cls : {Cls(UserEntity)},
             return_raw : BOOLEAN,
             field_mapping : FieldMappings,
             adapters : AdapterMappings]
      [] o = "get_raw_by" ->
            [store : Stores,
             filter_field : FilterFields,
             filter_value : FilterValues]

Init ==
    /\ op \in Ops
    /\ args \in Inputs(op)
    /\ result = Pending
    /\ queried = <<>>

(***************************************************************************)
(* The calls: each action is one call of a function, to its outcome.       *)
(***************************************************************************)
\* BY_FILTER = Literal["username", "id", "email"], the annotation of the
\* filter_field parameters; no statement of the module tests it.
BY_FILTER == {"username", "id", "email"}

\* The lookups a call of the function issues: get_by and get_raw_by pass the
\* caller's filter_field and filter_value to model_cls.objects.get as their
\* first statement; the other functions touch no store.
StoreLookups(name) ==
    IF name \in {"get_by", "get_raw_by"}
    THEN <<[filter_field |-> args.filter_field, filter_value |-> args.filter_value]>>
    ELSE <<>>

Call(name, outcome) ==
    /\ op = name
    /\ result = Pending
    /\ result' = outcome
    /\ queried' = queried \o StoreLookups(name)
    /\ UNCHANGED <<op, args>>

RequestToDto ==
    Call("request_to_dto", request_to_dto(args.req, args.dto_model))

EntityToDto ==
    Call("entity_to_dto", entity_to_dto(args.entity_instance, args.dto_cls))

EntityToDtos ==
    Call("entity_to_dtos", entity_to_dtos(args.entities_instances, args.dto_cls))

DtoToEntity ==
    Call("dto_to_entity",
         dto_to_entity(args.dto_instance, args.entity_cls, args.field_map))

DtoToEntities ==
    Call("dto_to_entities", dto_to_entities(args.dto_instances, args.entity_cls))

UpdateEntity ==
    Call("update_entity", update_entity(args.base_entity, args.update_entity))

ModelToEntity ==
    Call("model_to_entity",
         model_to_entity(args.model_instance, args.entity_cls,
                         args.field_mapping, args.adapters))

GetBy ==
    Call("get_by",
         get_by(args.store, args.filter_field, args.filter_value, args.entity_cls,
                args.return_raw, args.field_mapping, args.adapters))

GetRawBy ==
    Call("get_raw_by", get_raw_by(args.store, args.filter_field, args.filter_value))

Next ==
    \/ RequestToDto
    \/ EntityToDto
    \/ EntityToDtos
    \/ DtoToEntity
    \/ DtoToEntities
    \/ UpdateEntity
    \/ ModelToEntity
    \/ GetBy
    \/ GetRawBy

Spec == Init /\ [][Next]_vars

(***************************************************************************)
(* Properties                                                              *)
(***************************************************************************)
Returned == result # Pending

IsInstanceOf(x, schema) == x.k = "rec" /\ x.v.cls = schema

\* C1: for records base and update of one record type, update_entity returns
\* a record of that type whose every field is update's value where that is
\* non-null and base's value where it is null.
C1_UpdateEntityFieldwise ==
    (/\ op = "update_entity"
     /\ Returned
     /\ args.base_entity.k = "rec"
     /\ args.update_entity.k = "rec"
     /\ args.base_entity.v.cls = args.update_entity.v.cls)
    => /\ IsInstanceOf(result, args.base_entity.v.cls)
       /\ \A f \in FieldSet(args.base_entity.v.cls) :
              result.v.f[f] = IF args.update_entity.v.f[f] # None
                              THEN args.update_entity.v.f[f]
                              ELSE args.base_entity.v.f[f]

\* The fields of a DTO that were explicitly set and are non-null.
SetAndNonNull(dto) ==
    {f \in FieldSet(dto.v.cls) : f \in dto.v.set /\ dto.v.f[f] # None}

\* C2: without a field_map, dto_to_entity passes to the record type exactly
\* the DTO's explicitly set, non-null fields: each such field of the result
\* carries the DTO's value (a nested DTO as its dump), every other field
\* carries the record type's declared default, and the constructor fails
\* only when such an omitted field has no default.
C2_DtoToEntityOmitsUnsetAndNull ==
    (op = "dto_to_entity" /\ Returned /\ args.field_map = <<>>)
    => LET dto == args.dto_instance
           R == args.entity_cls.v
           passed == SetAndNonNull(dto)
       IN IF \E f \in FieldSet(R) \ passed : R.dflt[f] = MISSING
          THEN result = Raise("TypeError")
          ELSE /\ IsInstanceOf(result, R)
               /\ \A f \in passed :
                      result.v.f[f] = IF dto.v.f[f].k = "dto"
                                      THEN Dict(dto.v.f[f].v.f)
                                      ELSE dto.v.f[f]
               /\ \A f \in FieldSet(R) \ passed : result.v.f[f] = R.dflt[f]

\* C2 witness: an unset field whose DTO default differs from the record
\* type's default comes out as the record type's default.
C2_Witness ==
    /\ op = "dto_to_entity"
    /\ args.field_map = <<>>
    /\ result.k = "rec"
    /\ "age" \notin args.dto_instance.v.set
    /\ args.dto_instance.v.f.age = VInt(1)
    /\ result.v.f.age = VInt(2)
    /\ "gender" \in args.dto_instance.v.set
    /\ args.dto_instance.v.f.gender = None

\* The field_map entries that map a nested DTO field to its record type.
NestedTargets == {<<"gender", Cls(GenderEntity)>>, <<"address", Cls(AddressEntity)>>}

\* C3: with a field_map whose targets are all record types, dto_to_entity
\* still passes only the DTO's explicitly set, non-null fields; a listed
\* field holds the conversion of the nested DTO into the mapped record type,
\* and a listed field that is unset or null is omitted like any other, the
\* call not failing for it.
C3_FieldMapConvertsNestedAndOmitsNull ==
    (/\ op = "dto_to_entity"
     /\ Returned
     /\ args.field_map # <<>>
     /\ \A i \in 1..Len(args.field_map) : args.field_map[i] \in NestedTargets)
    => LET dto == args.dto_instance
           R == args.entity_cls.v
           passed == SetAndNonNull(dto)
           listed == {args.field_map[i][1] : i \in 1..Len(args.field_map)}
       IN IF \E f \in FieldSet(R) \ passed : R.dflt[f] = MISSING
          THEN result = Raise("TypeError")
          ELSE /\ IsInstanceOf(result, R)
               /\ \A f \in passed :
                      result.v.f[f] =
                          IF f \in listed
                          THEN Rec((CHOOSE t \in NestedTargets : t[1] = f)[2].v,
                                   dto.v.f[f].v.f)
                          ELSE IF dto.v.f[f].k = "dto"
                          THEN Dict(dto.v.f[f].v.f)
                          ELSE dto.v.f[f]
               /\ \A f \in FieldSet(R) \ passed : result.v.f[f] = R.dflt[f]

\* C4: a non-record argument always yields a TypeError: entity_to_dto when
\* its entity is not a dataclass instance, update_entity when either
\* argument is not a dataclass instance, dto_to_entity when a field_map
\* entry maps a field to a type that is not a dataclass type (such as str).
C4_NonRecordArgumentRaisesTypeError ==
    /\ (op = "entity_to_dto" /\ Returned /\ args.entity_instance.k # "rec")
       => result = Raise("TypeError")
    /\ (/\ op = "update_entity"
        /\ Returned
        /\ (args.base_entity.k # "rec" \/ args.update_entity.k # "rec"))
       => result = Raise("TypeError")
    /\ (/\ op = "dto_to_entity"
        /\ Returned
        /\ \E i \in 1..Len(args.field_map) :
               /\ args.field_map[i][2].k = "class"
               /\ args.field_map[i][2].v.kind # "dataclass")
       => result = Raise("TypeError")

\* The record type of r constructed from the full field dump of a DTO.
FromFullDump(r, dto) == Construct(Cls(r.v.cls), model_dump(dto, FALSE, FALSE).v)

\* C5 (as stated): converting a record with entity_to_dto and constructing
\* its record type from the DTO's full field dump yields a record whose
\* every field value equals the record's.
C5_RoundTripReproducesFields ==
    (op = "entity_to_dto" /\ Returned /\ result.k = "dto")
    => LET back == FromFullDump(args.entity_instance, result)
       IN /\ IsInstanceOf(back, args.entity_instance.v.cls)
          /\ \A f \in FieldSet(back.v.cls) :
                 back.v.f[f] = args.entity_instance.v.f[f]

HasNoOuterSpace(s) == s = <<>> \/ (s[1] # " " /\ s[Len(s)] # " ")

\* What the round trip makes of a field value, given whether the DTO type
\* strips whitespace: a string is stripped, a nested record is a mapping.
RECURSIVE RoundTripped(_, _)
RoundTripped(x, strips) ==
    CASE x.k = "str" ->
            IF strips
            THEN VStr(SubSeq(x.v,
                             CHOOSE i \in 1..(Len(x.v) + 1) :
                                 /\ \A j \in 1..(i - 1) : x.v[j] = " "
                                 /\ i <= Len(x.v) => x.v[i] # " ",
                             CHOOSE i \in 0..Len(x.v) :
                                 /\ \A j \in (i + 1)..Len(x.v) : x.v[j] = " "
                                 /\ i >= 1 => x.v[i] # " "))
            ELSE x
      [] x.k = "rec" -> Dict([f \in DOMAIN x.v.f |-> RoundTripped(x.v.f[f], strips)])
      [] OTHER -> x

\* C5 (amended): the round trip reproduces every field that is null, an
\* integer, or a string the DTO type leaves unchanged; a string comes back
\* with its leading and trailing whitespace stripped when the DTO type
\* strips whitespace (as BaseDTO does), and a nested record comes back as
\* the mapping of its fields, not as a record.
C5_RoundTripUpToStripAndNesting ==
    (op = "entity_to_dto" /\ Returned /\ result.k = "dto")
    => LET back == FromFullDump(args.entity_instance, result)
           strips == args.dto_cls.v.strip
       IN /\ IsInstanceOf(back, args.entity_instance.v.cls)
          /\ \A f \in FieldSet(back.v.cls) :
                 LET x == args.entity_instance.v.f[f]
                 IN /\ back.v.f[f] = RoundTripped(x, strips)
                    /\ (x.k \in {"none", "int"}) => back.v.f[f] = x
                    /\ (x.k = "str" /\ (HasNoOuterSpace(x.v) \/ ~strips))
                       => back.v.f[f] = x

\* C5 witness: a round trip through a stripping DTO type of a record with a
\* padded string and a nested record.
C5_Witness ==
    /\ op = "entity_to_dto"
    /\ result.k = "dto"
    /\ args.dto_cls.v.strip
    /\ args.entity_instance.v.f.first_name = VStr(<<" ", "a">>)
    /\ args.entity_instance.v.f.age = VInt(1)
    /\ args.entity_instance.v.f.gender.k = "rec"
    /\ FromFullDump(args.entity_instance, result).v.f.first_name = VStr(<<"a">>)
    /\ FromFullDump(args.entity_instance, result).v.f.age = VInt(1)

\* C6: entity_to_dtos and dto_to_entities return an empty list for an empty
\* input and otherwise a list of the input's length whose i-th element is
\* the conversion of the i-th input element.
C6_BatchOnePerInputInOrder ==
    /\ (op = "entity_to_dtos" /\ Returned)
       => LET xs == args.entities_instances
              conv(i) == entity_to_dto(xs[i], args.dto_cls)
          IN /\ xs = <<>> => result = List(<<>>)
             /\ (\A i \in 1..Len(xs) : ~IsRaise(conv(i))) => result.k = "list"
             /\ result.k = "list"
                => /\ Len(result.v) = Len(xs)
                   /\ \A i \in 1..Len(xs) : result.v[i] = conv(i)
    /\ (op = "dto_to_entities" /\ Returned)
       => LET xs == args.dto_instances
              conv(i) == LET dumped == model_dump(xs[i], FALSE, FALSE)
                         IN IF IsRaise(dumped)
                            THEN dumped
                            ELSE Construct(args.entity_cls, dumped.v)
          IN /\ xs = <<>> => result = List(<<>>)
             /\ (\A i \in 1..Len(xs) : ~IsRaise(conv(i))) => result.k = "list"
             /\ result.k = "list"
                => /\ Len(result.v) = Len(xs)
                   /\ \A i \in 1..Len(xs) : result.v[i] = conv(i)

\* C6 witness: a batch of two different records converted, each DTO
\* carrying its own record's name.
C6_Witness ==
    /\ op = "entity_to_dtos"
    /\ result.k = "list"
    /\ Len(result.v) = 2
    /\ args.entities_instances[1].v.f.first_name = VStr(<<"a">>)
    /\ args.entities_instances[2].v.f.first_name = VStr(<<" ">>)
    /\ ~args.dto_cls.v.strip
    /\ result.v[1].v.f.first_name = VStr(<<"a">>)
    /\ result.v[2].v.f.first_name = VStr(<<" ">>)

\* The stored objects that match the lookup of the call.
Matching ==
    {m \in args.store :
        args.filter_field \in ModelFields /\ m.v.f[args.filter_field] = args.filter_value}

\* A lookup the store accepts: on a field of the stored model, with a value
\* of the field's type.
LookupAccepted ==
    /\ args.filter_field \in ModelFields
    /\ args.filter_field = "id" => args.filter_value.k = "int"

\* The stored-object attribute an entity field is read from.
Resolved(f) ==
    IF args.field_mapping # None /\ f \in DOMAIN args.field_mapping.v
    THEN args.field_mapping.v[f]
    ELSE f

HasAdapter(name) == args.adapters # None /\ name \in DOMAIN args.adapters.v

\* C7: get_by returns null when no stored object matches; when exactly one
\* matches it returns that stored object if return_raw (what get_raw_by
\* returns for the lookup) and otherwise the record model_to_entity makes of
\* it, whose fields carry the stored object's values.
C7_GetByNullOrTheMatch ==
    (op = "get_by" /\ Returned /\ LookupAccepted)
    => /\ Matching = {} => result = None
       /\ \A m \in Matching :
              Matching = {m}
              => /\ args.return_raw
                    => /\ result = m
                       /\ result = get_raw_by(args.store, args.filter_field,
                                              args.filter_value)
                 /\ ~args.return_raw
                    => LET e == model_to_entity(m, args.entity_cls,
                                                args.field_mapping, args.adapters)
                       IN e.k = "rec"
                          => /\ result = e
                             /\ \A f \in FieldSet(args.entity_cls.v) :
                                    ~HasAdapter(Resolved(f))
                                    => result.v.f[f] = m.v.f[Resolved(f)]

\* C7 witness: one of two stored objects matches and is returned converted.
C7_Witness ==
    /\ op = "get_by"
    /\ LookupAccepted
    /\ Cardinality(args.store) = 2
    /\ Cardinality(Matching) = 1
    /\ ~args.return_raw
    /\ args.filter_field = "username"
    /\ result.k = "rec"
    /\ result.v.f.name = args.filter_value

\* C8: the record model_to_entity builds has, for each field f of the record
\* type, the value of the stored object's attribute field_mapping.get(f, f),
\* passed through the adapter registered under that attribute name when
\* there is one and unchanged otherwise; an adapter registered under the
\* record field name is not applied when the mapping renames the field.
C8_ModelToEntityFieldValues ==
    (op = "model_to_entity" /\ Returned /\ result.k = "rec")
    => \A f \in FieldSet(args.entity_cls.v) :
           LET raw == args.model_instance.v.f[Resolved(f)]
           IN /\ HasAdapter(Resolved(f))
                 => result.v.f[f] = ApplyAdapter(args.adapters.v[Resolved(f)], raw)
              /\ ~HasAdapter(Resolved(f)) => result.v.f[f] = raw
              /\ (HasAdapter(f) /\ Resolved(f) # f /\ ~HasAdapter(Resolved(f)))
                 => result.v.f[f] = raw

\* C8 witness: the field name is renamed to username and the only adapter
\* is registered under name; the record carries the username unchanged.
C8_Witness ==
    /\ op = "model_to_entity"
    /\ result.k = "rec"
    /\ args.field_mapping = Dict([name |-> "username"])
    /\ args.adapters = Dict([name |-> "wrap"])
    /\ result.v.f.name = args.model_instance.v.f.username

\* The one source request_to_dto reads: the body when non-empty, else the
\* query parameters.
Source == IF args.req.data.v # <<>> THEN args.req.data.v ELSE args.req.query_params.v

\* C9: request_to_dto builds the DTO from the body when it is non-empty and
\* from the query parameters otherwise; each declared field takes the
\* same-named value of that one source, null when the key is missing; no
\* undeclared key is passed; the call fails with ValidationError exactly
\* when those values violate the DTO's constraints.
C9_RequestToDtoOneSource ==
    (op = "request_to_dto" /\ Returned)
    => LET given(f) == IF f \in DOMAIN Source THEN Source[f] ELSE None
           violates == \/ given("first_name").k # "str"
                       \/ given("age").k \notin {"int", "none"}
       IN /\ violates <=> result = Raise("ValidationError")
          /\ ~violates
             => /\ result.k = "dto"
                /\ DOMAIN result.v.f = FieldSet(args.dto_model.v)
                /\ result.v.set = FieldSet(args.dto_model.v)
                /\ \A f \in FieldSet(args.dto_model.v) :
                       result.v.f[f] = IF given(f).k = "str" /\ args.dto_model.v.strip
                                       THEN VStr(Strip(given(f).v))
                                       ELSE given(f)

\* C9 witness: the body is non-empty and lacks first_name, which the query
\* parameters hold; the value is not taken from the query parameters.
C9_Witness ==
    /\ op = "request_to_dto"
    /\ args.req.data.v # <<>>
    /\ "first_name" \notin DOMAIN args.req.data.v
    /\ "first_name" \in DOMAIN args.req.query_params.v
    /\ result = Raise("ValidationError")

\* C10: no error raised while a converter runs is swallowed: get_by returns
\* null only when the lookup itself finds no stored object.
C10_GetByNullOnlyWhenNotFound ==
    (op = "get_by" /\ Returned /\ result = None) => Matching = {}

\* C11: dto_to_entities constructs each record from the DTO's full field
\* dump, unset and null fields included: every field of an output element
\* carries the DTO's own value (a nested DTO as its dump), so an unset or
\* null field carries the DTO's default or null, whereas dto_to_entity on
\* the same DTO omits that field and the record type's default applies.
C11_BatchUsesFullDump ==
    (op = "dto_to_entities" /\ Returned /\ result.k = "list")
    => \A i \in 1..Len(args.dto_instances) :
           LET dto == args.dto_instances[i]
               out == result.v[i]
               R == args.entity_cls.v
               single == dto_to_entity(dto, args.entity_cls, <<>>)
           IN /\ IsInstanceOf(out, R)
              /\ \A f \in FieldSet(dto.v.cls) :
                     out.v.f[f] = IF dto.v.f[f].k = "dto"
                                  THEN Dict(dto.v.f[f].v.f)
                                  ELSE dto.v.f[f]
              /\ \A f \in FieldSet(dto.v.cls) \ SetAndNonNull(dto) :
                     /\ out.v.f[f] = dto.v.f[f]
                     /\ single.k = "rec" => single.v.f[f] = R.dflt[f]

\* C11 witness: a DTO whose age is unset, with DTO default 1 and record
\* default 2: the batch element carries 1 where dto_to_entity yields 2.
C11_Witness ==
    /\ op = "dto_to_entities"
    /\ result.k = "list"
    /\ Len(result.v) = 2
    /\ "age" \notin args.dto_instances[2].v.set
    /\ args.dto_instances[2].v.f.age = VInt(1)
    /\ args.entity_cls.v.dflt.age = VInt(2)
    /\ result.v[2].v.f.age = VInt(1)
    /\ dto_to_entity(args.dto_instances[2], args.entity_cls, <<>>).v.f.age = VInt(2)
    /\ "age" \in args.dto_instances[1].v.set
    /\ args.dto_instances[1].v.f.age = None
    /\ result.v[1].v.f.age = None

\* C12: get_by and get_raw_by query the store only with a filter_field of
\* the allow-list username, id, email; a filter_field outside it never
\* reaches the store lookup.
C12_OnlyAllowListedFieldsQueried ==
    \A i \in 1..Len(queried) : queried[i].filter_field \in BY_FILTER

====
